---- MODULE Spec2Model ----
(***************************************************************************)
(* TalentLink backend (accounts app): the proposal-acceptance -> contract  *)
(* -> completion -> notification cascade.                                  *)
(*                                                                         *)
(* The database tables are the state.  Every HTTP request runs in a server *)
(* worker; a request handler is a sequence of database statements, and     *)
(* statements of two requests may interleave (autocommit, no               *)
(* transaction.atomic / select_for_update anywhere in views.py).  Handlers *)
(* whose code is in views.py (accept, mark_completed) are modelled         *)
(* statement by statement; post_save receivers run inside save().          *)
(***************************************************************************)
EXTENDS Integers, Sequences, FiniteSets, Bags, TLC

(* ------------------------------ bounds -------------------------------- *)
MaxRequests == 4        \* requests served in one behaviour
MaxProposals == 1       \* proposals submitted in one behaviour

(* ------------------------------ users --------------------------------- *)
\* models.py 8-10: User with the flags is_client / is_freelancer.
\* "A" is a client and owns the project, "B" is a freelancer, "X" is a
\* client who owns no project (a third party to every contract).
Users == {"A", "B", "X"}
IsClient == {"A", "X"}
IsFreelancer == {"B"}

\* models.py 56-57: Project.client; one project, posted by "A".
Projects == {"P"}
ProjectClient == [pr \in Projects |-> "A"]

\* models.py 75: Proposal.bid_amount values used as request input.
Bids == {100, 250}
\* models.py 101: Contract.rating values used as request input (0 = null).
Ratings == {5}

Workers == {1, 2}

VARIABLES
    proposals,        \* table Proposal: sequence, id = index
    contracts,        \* table Contract: sequence, id = index
    messages,         \* table Message: bag of rows
    notifications,    \* table Notification: bag of rows
    req,              \* per worker: the request it serves / last served
    started,          \* number of requests served so far
    signals_loaded    \* whether accounts/signals.py was imported at start-up

vars == <<proposals, contracts, messages, notifications, req, started, signals_loaded>>

(* ------------------------------ rows ---------------------------------- *)
\* models.py 126-153: Notification(user, message, link, notification_type).
\* kind names the statement that creates the row; ref is the entity the
\* message / link refers to.
Notification(user, kind, ref) == [user |-> user, kind |-> kind, ref |-> ref]

\* views.py 29-33
create_notification(ns, user, kind, ref) == ns (+) SetToBag({Notification(user, kind, ref)})

NoInst == [none |-> TRUE]
ZeroSent == [u \in Users |-> 0]
IdleReq == [op |-> "none", pc |-> "idle", user |-> "A", id |-> 0, inst |-> NoInst,
            result |-> "none", contract_id |-> 0, sent |-> ZeroSent, created |-> FALSE]

Sent(s, u) == [s EXCEPT ![u] = @ + 1]
TotalSent(s) == s["A"] + s["B"] + s["X"]

InFlight(w) == req[w].pc \notin {"idle", "done"}
Quiescent == \A w \in Workers : ~InFlight(w)

Done(r, result) == [r EXCEPT !.pc = "done", !.result = result, !.inst = NoInst]

(* ------------------------------ Contract ------------------------------ *)
ContractsOf(cs, p) == {i \in DOMAIN cs : cs[i].proposal = p}

\* hasattr(instance, 'contract') (models.py 170) and
\* Contract.objects.filter(proposal=instance).exists() (signals.py 35)
HasContract(cs, p) == ContractsOf(cs, p) # {}

NoUniqueConstraint(cs, p) == FALSE

\* models.py 85: proposal = OneToOneField(Proposal): the column is UNIQUE,
\* an INSERT of a second contract for the proposal raises IntegrityError.
UniqueViolation(cs, p) == HasContract(cs, p)

\* status left to the column default (models.py 97)
NewContractDefaultStatus(p, inst) ==
    [proposal |-> p, client |-> ProjectClient[inst.project], freelancer |-> inst.freelancer,
     payment_amount |-> inst.bid_amount, status |-> "Pending", rating |-> 0]

\* the row both receivers and get_or_create's defaults build
NewContract(p, inst) ==
    [proposal |-> p, client |-> ProjectClient[inst.project], freelancer |-> inst.freelancer,
     payment_amount |-> inst.bid_amount, status |-> "Active", rating |-> 0]

Init ==
    /\ proposals = <<>>
    /\ contracts = <<>>
    /\ messages = EmptyBag
    \* views.py 122-128: posting the project notified its client
    /\ notifications = SetToBag({Notification("A", "project_posted", "P")})
    /\ req = [w \in Workers |-> IdleReq]
    /\ started = 0
    /\ signals_loaded \in BOOLEAN

StartOk(w) == ~InFlight(w) /\ started < MaxRequests

\* a worker takes the next request; r is the request as the step leaves it
Serve(w, r) ==
    /\ StartOk(w)
    /\ req' = [req EXCEPT ![w] = r]
    /\ started' = started + 1

Request(op, pc, user, id) == [IdleReq EXCEPT !.op = op, !.pc = pc, !.user = user, !.id = id]
Answered(op, user, id, result) == [Request(op, "done", user, id) EXCEPT !.result = result]

(* ------------------------------ Proposal ------------------------------ *)
\* views.py 138-144: ProposalViewSet.get_queryset
ProposalQueryset(ps, user) ==
    IF user \in IsClient THEN {p \in DOMAIN ps : ProjectClient[ps[p].project] = user}
    ELSE IF user \in IsFreelancer THEN {p \in DOMAIN ps : ps[p].freelancer = user}
    ELSE {}

\* views.py 146-153: ProposalViewSet.perform_create; models.py 76: status
\* defaults to Pending.  The post_save receivers do nothing for a Pending row.
SubmitProposal(w, user, pr, bid) ==
    /\ Len(proposals) < MaxProposals
    /\ Serve(w, Answered("submit", user, Len(proposals) + 1, "OK"))
    /\ proposals' = Append(proposals,
          [project |-> pr, freelancer |-> user, bid_amount |-> bid, status |-> "Pending"])
    /\ notifications' = create_notification(notifications, ProjectClient[pr], "proposal_submitted", pr)
    /\ UNCHANGED <<contracts, messages, signals_loaded>>

CreateWhateverStatus(cs, p, inst) == ~HasContract(cs, p)

\* the condition of both post_save receivers (models.py 170, signals.py 35)
ShouldCreateContract(cs, p, inst) == inst.status = "Accepted" /\ ~HasContract(cs, p)

\* a post_save receiver run as one statement: signals.py 30-42
create_contract_on_accept(cs, p, inst) ==
    IF ShouldCreateContract(cs, p, inst) /\ ~UniqueViolation(cs, p)
    THEN Append(cs, NewContract(p, inst))
    ELSE cs

\* the receiver raises IntegrityError (the INSERT hits the UNIQUE column)
ReceiverRaises(cs, p, inst) == ShouldCreateContract(cs, p, inst) /\ UniqueViolation(cs, p)

AcceptStart(w, user, p) ==
    /\ p \in DOMAIN proposals
    /\ Serve(w, Request("accept", "accept_get", user, p))
    /\ UNCHANGED <<proposals, contracts, messages, notifications, signals_loaded>>

AcceptAnyStatus(ps, p) == TRUE
AcceptByAnyUser(ps, user, p) == TRUE

\* views.py 158: proposal.project.client != request.user -> 403
IsProjectClient(ps, user, p) == ProjectClient[ps[p].project] = user
\* views.py 160: proposal.status != "Pending" -> 400
IsPending(ps, p) == ps[p].status = "Pending"

\* views.py 157-161: get_object() (404 outside the queryset) and the two checks
AcceptGet(w) ==
    LET r == req[w] IN
    /\ r.pc = "accept_get"
    /\ req' = [req EXCEPT ![w] =
          IF r.id \notin ProposalQueryset(proposals, r.user) THEN Done(r, "NotFound")
          ELSE IF ~IsProjectClient(proposals, r.user, r.id) THEN Done(r, "Forbidden")
          ELSE IF ~IsPending(proposals, r.id) THEN Done(r, "BadRequest")
          ELSE [r EXCEPT !.pc = "accept_save", !.inst = proposals[r.id]]]
    /\ UNCHANGED <<proposals, contracts, messages, notifications, started, signals_loaded>>

\* views.py 163-164: proposal.status = "Accepted"; proposal.save() writes the
\* whole row from the instance the request loaded.
AcceptSave(w) ==
    LET r == req[w]
        inst == [r.inst EXCEPT !.status = "Accepted"] IN
    /\ r.pc = "accept_save"
    /\ proposals' = [proposals EXCEPT ![r.id] = inst]
    /\ req' = [req EXCEPT ![w] = [r EXCEPT !.pc = "accept_post_save", !.inst = inst]]
    /\ UNCHANGED <<contracts, messages, notifications, started, signals_loaded>>

AfterModelsReceiver == IF signals_loaded THEN "accept_signals" ELSE "accept_get_or_create"

\* models.py 170: the receiver's condition, evaluated inside proposal.save()
AcceptPostSave(w) ==
    LET r == req[w] IN
    /\ r.pc = "accept_post_save"
    /\ req' = [req EXCEPT ![w] =
          [r EXCEPT !.pc = IF ShouldCreateContract(contracts, r.id, r.inst)
                           THEN "accept_contract_create" ELSE AfterModelsReceiver]]
    /\ UNCHANGED <<proposals, contracts, messages, notifications, started, signals_loaded>>

\* models.py 171-177: Contract.objects.create(...); an IntegrityError leaves
\* the view through proposal.save() (a 500), the UPDATE stays committed.
AcceptContractCreate(w) ==
    LET r == req[w] IN
    /\ r.pc = "accept_contract_create"
    /\ IF UniqueViolation(contracts, r.id)
       THEN /\ req' = [req EXCEPT ![w] = Done(r, "IntegrityError")]
            /\ UNCHANGED contracts
       ELSE /\ contracts' = Append(contracts, NewContract(r.id, r.inst))
            /\ req' = [req EXCEPT ![w] = [r EXCEPT !.pc = AfterModelsReceiver]]
    /\ UNCHANGED <<proposals, messages, notifications, started, signals_loaded>>

\* signals.py 30-42: the second receiver of post_save(Proposal), connected
\* after the one of models.py
AcceptSignals(w) ==
    LET r == req[w] IN
    /\ r.pc = "accept_signals"
    /\ IF ReceiverRaises(contracts, r.id, r.inst)
       THEN /\ req' = [req EXCEPT ![w] = Done(r, "IntegrityError")]
            /\ UNCHANGED contracts
       ELSE /\ contracts' = create_contract_on_accept(contracts, r.id, r.inst)
            /\ req' = [req EXCEPT ![w] = [r EXCEPT !.pc = "accept_get_or_create"]]
    /\ UNCHANGED <<proposals, messages, notifications, started, signals_loaded>>

\* views.py 167-175: Contract.objects.get_or_create(proposal=proposal, defaults=...):
\* get; on DoesNotExist create; on IntegrityError get again.  get() of several
\* rows raises MultipleObjectsReturned.
AcceptGetOrCreate(w) ==
    LET r == req[w]
        cs == IF HasContract(contracts, r.id) \/ UniqueViolation(contracts, r.id)
              THEN contracts ELSE Append(contracts, NewContract(r.id, r.inst))
        found == ContractsOf(cs, r.id) IN
    /\ r.pc = "accept_get_or_create"
    /\ contracts' = cs
    /\ req' = [req EXCEPT ![w] =
          IF Cardinality(found) = 1
          THEN [r EXCEPT !.pc = "accept_notify", !.contract_id = CHOOSE i \in found : TRUE]
          ELSE Done(r, "MultipleObjectsReturned")]
    /\ UNCHANGED <<proposals, messages, notifications, started, signals_loaded>>

\* views.py 177-187: notify the freelancer, answer 200 with contract_id
AcceptNotify(w) ==
    LET r == req[w] IN
    /\ r.pc = "accept_notify"
    /\ notifications' = create_notification(notifications, r.inst.freelancer, "proposal_accepted", r.contract_id)
    /\ req' = [req EXCEPT ![w] = Done([r EXCEPT !.sent = Sent(@, r.inst.freelancer)], "OK")]
    /\ UNCHANGED <<proposals, contracts, messages, started, signals_loaded>>

accept(w) ==
    \/ AcceptGet(w)
    \/ AcceptSave(w)
    \/ AcceptPostSave(w)
    \/ AcceptContractCreate(w)
    \/ AcceptSignals(w)
    \/ AcceptGetOrCreate(w)
    \/ AcceptNotify(w)

\* The reject transition of the proposal state machine (Pending -> Rejected),
\* done by the project's client; the save runs the post_save receivers,
\* which do nothing for a Rejected row.  One statement: load, check, save.
RejectProposal(w, user, p) ==
    /\ p \in DOMAIN proposals
    /\ IF p \notin ProposalQueryset(proposals, user)
       THEN Serve(w, Answered("reject", user, p, "NotFound")) /\ UNCHANGED <<proposals, contracts>>
       ELSE IF ProjectClient[proposals[p].project] # user
       THEN Serve(w, Answered("reject", user, p, "Forbidden")) /\ UNCHANGED <<proposals, contracts>>
       ELSE IF proposals[p].status # "Pending"
       THEN Serve(w, Answered("reject", user, p, "BadRequest")) /\ UNCHANGED <<proposals, contracts>>
       ELSE LET inst == [proposals[p] EXCEPT !.status = "Rejected"] IN
            /\ Serve(w, Answered("reject", user, p, "OK"))
            /\ proposals' = [proposals EXCEPT ![p] = inst]
            /\ contracts' = create_contract_on_accept(contracts, p, inst)
    /\ UNCHANGED <<messages, notifications, signals_loaded>>

\* Any other save of a proposal (an edit of its bid by its freelancer through
\* the proposals endpoint): the status is kept, the post_save receivers run.
UpdateProposal(w, user, p, bid) ==
    /\ p \in DOMAIN proposals
    /\ IF p \notin ProposalQueryset(proposals, user)
       THEN Serve(w, Answered("update_proposal", user, p, "NotFound")) /\ UNCHANGED <<proposals, contracts>>
       ELSE LET inst == [proposals[p] EXCEPT !.bid_amount = bid] IN
            /\ Serve(w, [Answered("update_proposal", user, p, "OK") EXCEPT !.inst = inst])
            /\ proposals' = [proposals EXCEPT ![p] = inst]
            /\ contracts' = create_contract_on_accept(contracts, p, inst)
    /\ UNCHANGED <<messages, notifications, signals_loaded>>

(* --------------------------- Contract requests ------------------------ *)
\* views.py 199-209: ContractViewSet.get_queryset
ContractQueryset(cs, user) ==
    IF user \in IsClient THEN {c \in DOMAIN cs : cs[c].client = user}
    ELSE IF user \in IsFreelancer THEN {c \in DOMAIN cs : cs[c].freelancer = user}
    ELSE {}

\* models.py 194-214: post_save(Contract): when the saved instance is
\* Completed, one notification to the client and one to the freelancer
notify_on_contract_status_change(ns, c, inst) ==
    IF inst.status = "Completed"
    THEN create_notification(create_notification(ns, inst.client, "completed_signal", c),
                             inst.freelancer, "completed_signal", c)
    ELSE ns

\* what the receiver adds to the notifications the request has created
SentOnContractSave(s, inst) ==
    IF inst.status = "Completed" THEN Sent(Sent(s, inst.client), inst.freelancer) ELSE s

MarkCompletedStart(w, user, c) ==
    /\ c \in DOMAIN contracts
    /\ Serve(w, Request("mark_completed", "mark_completed_get", user, c))
    /\ UNCHANGED <<proposals, contracts, messages, notifications, signals_loaded>>

NeverCompleted(cs, c) == FALSE

\* views.py 219: contract.status == 'Completed'
IsCompleted(cs, c) == cs[c].status = "Completed"

\* views.py 217-220: get_object_or_404(Contract, pk=pk) (no queryset, no
\* check of the acting user) and the Completed check -> 400
MarkCompletedGet(w) ==
    LET r == req[w] IN
    /\ r.pc = "mark_completed_get"
    /\ req' = [req EXCEPT ![w] =
          IF IsCompleted(contracts, r.id) THEN Done(r, "AlreadyCompleted")
          ELSE [r EXCEPT !.pc = "mark_completed_save", !.inst = contracts[r.id]]]
    /\ UNCHANGED <<proposals, contracts, messages, notifications, started, signals_loaded>>

\* views.py 222-223: contract.status = 'Completed'; contract.save() writes the
\* whole row from the loaded instance and runs notify_on_contract_status_change
MarkCompletedSave(w) ==
    LET r == req[w]
        inst == [r.inst EXCEPT !.status = "Completed"] IN
    /\ r.pc = "mark_completed_save"
    /\ contracts' = [contracts EXCEPT ![r.id] = inst]
    /\ notifications' = notify_on_contract_status_change(notifications, r.id, inst)
    /\ req' = [req EXCEPT ![w] =
          [r EXCEPT !.pc = "mark_completed_notify", !.inst = inst,
                    !.sent = SentOnContractSave(@, inst)]]
    /\ UNCHANGED <<proposals, messages, started, signals_loaded>>

\* views.py 225-232: Notification.objects.create(user=contract.freelancer, ...)
\* and the 200 response
MarkCompletedNotify(w) ==
    LET r == req[w] IN
    /\ r.pc = "mark_completed_notify"
    /\ notifications' = create_notification(notifications, r.inst.freelancer, "completed_view", r.id)
    /\ req' = [req EXCEPT ![w] = Done([r EXCEPT !.sent = Sent(@, r.inst.freelancer)], "OK")]
    /\ UNCHANGED <<proposals, contracts, messages, started, signals_loaded>>

mark_completed(w) ==
    \/ MarkCompletedGet(w)
    \/ MarkCompletedSave(w)
    \/ MarkCompletedNotify(w)

\* views.py 191-209: the update the ModelViewSet exposes on a contract of the
\* acting user (here: its rating, models.py 101); the save runs
\* notify_on_contract_status_change.
UpdateContract(w, user, c, rating) ==
    /\ c \in DOMAIN contracts
    /\ IF c \notin ContractQueryset(contracts, user)
       THEN Serve(w, Answered("update_contract", user, c, "NotFound")) /\ UNCHANGED <<contracts, notifications>>
       ELSE LET inst == [contracts[c] EXCEPT !.rating = rating] IN
            /\ Serve(w, [Answered("update_contract", user, c, "OK") EXCEPT
                            !.sent = SentOnContractSave(@, inst)])
            /\ contracts' = [contracts EXCEPT ![c] = inst]
            /\ notifications' = notify_on_contract_status_change(notifications, c, inst)
    /\ UNCHANGED <<proposals, messages, signals_loaded>>

(* ------------------------------ Message ------------------------------- *)
\* views.py 248-252: the recipient the view computes
Recipient(cs, c, sender) == IF sender = cs[c].client THEN cs[c].freelancer ELSE cs[c].client

\* models.py 180-191 and, when loaded, signals.py 46-56: post_save(Message,
\* created): each receiver notifies instance.receiver
create_notification_on_message(ns, c, receiver) ==
    LET n1 == create_notification(ns, receiver, "message_signal_models", c) IN
    IF signals_loaded THEN create_notification(n1, receiver, "message_signal_signals", c) ELSE n1

SentOnMessageSave(s, receiver) ==
    IF signals_loaded THEN Sent(Sent(s, receiver), receiver) ELSE Sent(s, receiver)

\* views.py 245-257: MessageViewSet.perform_create: the message is saved with
\* sender = request.user, contract and receiver as the request gives them;
\* then the view notifies the recipient it computes.
perform_create(w, user, c, receiver) ==
    LET recipient == Recipient(contracts, c, user)
        message == [contract |-> c, sender |-> user, receiver |-> receiver] IN
    /\ c \in DOMAIN contracts
    /\ Serve(w, [Answered("send_message", user, c, "OK") EXCEPT
                    !.created = TRUE,
                    !.inst = message,
                    !.sent = Sent(SentOnMessageSave(@, receiver), recipient)])
    /\ messages' = messages (+) SetToBag({message})
    /\ notifications' = create_notification(
                            create_notification_on_message(notifications, c, receiver),
                            recipient, "message_view", c)
    /\ UNCHANGED <<proposals, contracts, signals_loaded>>

(* ---------------------------- specification --------------------------- *)
StartRequest(w) ==
    \/ \E bid \in Bids : SubmitProposal(w, "B", "P", bid)
    \/ \E user \in Users, p \in 1..MaxProposals : AcceptStart(w, user, p)
    \/ \E user \in Users, p \in 1..MaxProposals : RejectProposal(w, user, p)
    \/ \E p \in 1..MaxProposals, bid \in Bids : UpdateProposal(w, "B", p, bid)
    \/ \E user \in Users, c \in 1..MaxProposals : MarkCompletedStart(w, user, c)
    \/ \E user \in Users, c \in 1..MaxProposals, rating \in Ratings : UpdateContract(w, user, c, rating)
    \/ \E user \in Users, c \in 1..MaxProposals, receiver \in Users : perform_create(w, user, c, receiver)

Step(w) == accept(w) \/ mark_completed(w)

\* requests of the two workers interleave statement by statement
Next == \E w \in Workers : StartRequest(w) \/ Step(w)

Spec == Init /\ [][Next]_vars

\* one request at a time: a request is taken only when none is in flight
SeqNext == \E w \in Workers : (Quiescent /\ StartRequest(w)) \/ Step(w)

SeqSpec == Init /\ [][SeqNext]_vars

(* ------------------------------ counting ------------------------------ *)
RECURSIVE SumCopies(_, _)
SumCopies(b, S) ==
    IF S = {} THEN 0
    ELSE LET x == CHOOSE y \in S : TRUE IN CopiesIn(x, b) + SumCopies(b, S \ {x})

\* rows of the Notification table of the given kinds about entity ref
CountNotifications(ns, kinds, ref) ==
    SumCopies(ns, {n \in BagToSet(ns) : n.kind \in kinds /\ n.ref = ref})

CompletionNotifications(ns, c) == CountNotifications(ns, {"completed_signal", "completed_view"}, c)

\* acceptance notifications recorded for the contracts of proposal p
AcceptNotifications(ns, p) ==
    SumCopies(ns, {n \in BagToSet(ns) : n.kind = "proposal_accepted" /\ n.ref \in ContractsOf(contracts, p)})

Answer(w, op) == req[w].op = op /\ req[w].pc = "done"
Parties(c) == {contracts[c].client, contracts[c].freelancer}

(* ------------------------------- claims -------------------------------- *)

\* C1: in every reachable state, also while two accept requests for the same
\* proposal interleave, there is at most one Contract per Proposal.
C1_AtMostOneContractPerProposal ==
    \A p \in DOMAIN proposals : Cardinality(ContractsOf(contracts, p)) <= 1

\* two accept requests for one proposal raced: both passed the Pending check,
\* one created the contract and the other one's INSERT was refused
C1_Witness ==
    \E w1, w2 \in Workers :
        /\ w1 # w2
        /\ req[w1].op = "accept" /\ req[w2].op = "accept" /\ req[w1].id = req[w2].id
        /\ req[w1].result = "IntegrityError"
        /\ req[w2].pc \in {"accept_signals", "accept_get_or_create", "accept_notify", "done"}
        /\ Cardinality(ContractsOf(contracts, req[w1].id)) = 1

\* C2 as stated: accept by the project's client, then accept again, returns
\* the same Contract id both times, with one Contract and one acceptance
\* notification.
C2_SecondAcceptReturnsSameContract ==
    \A w1, w2 \in Workers :
        (/\ w1 # w2
         /\ Answer(w1, "accept") /\ req[w1].result = "OK"
         /\ Answer(w2, "accept") /\ req[w2].id = req[w1].id
         /\ IsProjectClient(proposals, req[w2].user, req[w2].id))
        => /\ req[w2].result = "OK"
           /\ req[w2].contract_id = req[w1].contract_id
           /\ Cardinality(ContractsOf(contracts, req[w1].id)) = 1
           /\ AcceptNotifications(notifications, req[w1].id) = 1

\* C2 amended: accept by the project's client returns the Contract id; a
\* second accept of the same proposal is refused as not Pending (400), returns
\* no Contract id and notifies nobody; one Contract and one acceptance
\* notification exist.
C2_SecondAcceptRefused ==
    \A w1, w2 \in Workers :
        (/\ w1 # w2
         /\ Answer(w1, "accept") /\ req[w1].result = "OK"
         /\ Answer(w2, "accept") /\ req[w2].id = req[w1].id
         /\ IsProjectClient(proposals, req[w2].user, req[w2].id))
        => /\ req[w1].contract_id \in ContractsOf(contracts, req[w1].id)
           /\ req[w2].result = "BadRequest"
           /\ req[w2].contract_id = 0
           /\ TotalSent(req[w2].sent) = 0
           /\ Cardinality(ContractsOf(contracts, req[w1].id)) = 1
           /\ AcceptNotifications(notifications, req[w1].id) = 1

C2_Witness ==
    \E w1, w2 \in Workers :
        /\ w1 # w2
        /\ Answer(w1, "accept") /\ req[w1].result = "OK"
        /\ Answer(w2, "accept") /\ req[w2].id = req[w1].id
        /\ req[w2].user = "A" /\ req[w2].result = "BadRequest"

\* C3: mark_completed on a contract that is already Completed answers
\* AlreadyCompleted and changes no table: no contract field, no notification.
C3_AlreadyCompleted ==
    [][\A w \in Workers :
          (/\ req[w].pc = "mark_completed_get"
           /\ contracts[req[w].id].status = "Completed"
           /\ req'[w] # req[w])
          => /\ req'[w].pc = "done"
             /\ req'[w].result = "AlreadyCompleted"
             /\ TotalSent(req'[w].sent) = 0
             /\ UNCHANGED <<proposals, contracts, messages, notifications>>]_vars

C3_Witness ==
    \E w \in Workers :
        /\ Answer(w, "mark_completed") /\ req[w].result = "AlreadyCompleted"
        /\ contracts[req[w].id].status = "Completed"

\* C4: a message sent by a party of the contract to the other party emits
\* exactly one notification, addressed to the other party, none to the sender.
C4_OneNotificationToOtherParty ==
    \A w \in Workers :
        (/\ Answer(w, "send_message") /\ req[w].result = "OK"
         /\ req[w].user \in Parties(req[w].id)
         /\ req[w].inst.receiver = Recipient(contracts, req[w].id, req[w].user))
        => /\ TotalSent(req[w].sent) = 1
           /\ req[w].sent[Recipient(contracts, req[w].id, req[w].user)] = 1
           /\ req[w].sent[req[w].user] = 0

\* C5: a message sent by a user who is neither the client nor the freelancer
\* of the contract fails with Unauthorized, no Message, no Notification.
C5_OutsiderUnauthorized ==
    \A w \in Workers :
        (Answer(w, "send_message") /\ req[w].user \notin Parties(req[w].id))
        => /\ req[w].result = "Unauthorized"
           /\ ~req[w].created
           /\ TotalSent(req[w].sent) = 0

\* C6: a successful mark_completed leaves the contract Completed and has
\* created exactly one notification to the freelancer and one to the client.
C6_OneNotificationEach ==
    \A w \in Workers :
        (Answer(w, "mark_completed") /\ req[w].result = "OK")
        => /\ contracts[req[w].id].status = "Completed"
           /\ req[w].sent[contracts[req[w].id].freelancer] = 1
           /\ req[w].sent[contracts[req[w].id].client] = 1
           /\ TotalSent(req[w].sent) = 2

\* C7: once a contract is Completed and the completing request has answered,
\* no later save of the contract adds a completion notification.
C7_NoRefireWhileCompleted ==
    [][\A c \in DOMAIN contracts :
          (/\ contracts[c].status = "Completed"
           /\ ~\E w \in Workers : InFlight(w) /\ req[w].op = "mark_completed" /\ req[w].id = c)
          => CompletionNotifications(notifications', c) = CompletionNotifications(notifications, c)]_vars

\* C8: of two concurrent mark_completed requests on one contract at most one
\* passes the Completed check and performs the completion.
C8_CompletionIsAtomic ==
    \A w1, w2 \in Workers :
        (w1 # w2 /\ req[w1].op = "mark_completed" /\ req[w2].op = "mark_completed"
                 /\ req[w1].id = req[w2].id)
        => ~(/\ req[w1].pc \in {"mark_completed_save", "mark_completed_notify"}
             /\ req[w2].pc \in {"mark_completed_save", "mark_completed_notify"})

C11_UnauthorizedOrInvalidState ==
    [][\A w \in Workers :
          (req[w].pc = "accept_get" /\ req'[w] # req[w])
          => /\ (ProjectClient[proposals[req[w].id].project] # req[w].user)
                => /\ req'[w].pc = "done" /\ req'[w].result = "Forbidden"
                   /\ UNCHANGED <<proposals, contracts, notifications>>
             /\ (/\ ProjectClient[proposals[req[w].id].project] = req[w].user
                 /\ proposals[req[w].id].status # "Pending")
                => /\ req'[w].pc = "done" /\ req'[w].result = "BadRequest"
                   /\ UNCHANGED <<proposals, contracts, notifications>>]_vars

\* C11 amended: accept by a user who is not the project's client fails with
\* Unauthorized (403) when the proposal is in that user's queryset (the
\* freelancer who submitted it) and with NotFound (404) when it is not; accept
\* by the client of a proposal that is not Pending fails with InvalidState
\* (400); every failure leaves proposals, contracts and notifications as they
\* were and notifies nobody.
C11_AcceptFailures ==
    [][\A w \in Workers :
          (req[w].pc = "accept_get" /\ req'[w] # req[w])
          => LET user == req[w].user
                 p == req[w].id
                 client == ProjectClient[proposals[p].project]
                 expected ==
                    IF user # client
                    THEN IF p \in ProposalQueryset(proposals, user) THEN "Forbidden" ELSE "NotFound"
                    ELSE IF proposals[p].status # "Pending" THEN "BadRequest" ELSE "none"
             IN  /\ req'[w].result = expected
                 /\ expected # "none"
                    => /\ req'[w].pc = "done"
                       /\ TotalSent(req'[w].sent) = 0
                       /\ UNCHANGED <<proposals, contracts, messages, notifications>>]_vars

\* the three failures have happened: 403 for the submitting freelancer, 404
\* for a client who does not own the project, 400 for the owner's retry
C11_Witness ==
    /\ \E w \in Workers : Answer(w, "accept") /\ req[w].user = "A" /\ req[w].result = "BadRequest"
    /\ \E w \in Workers : Answer(w, "accept") /\ req[w].user \in {"B", "X"}
                            /\ req[w].result \in {"Forbidden", "NotFound"}

\* the requests whose save of an Accepted proposal has returned have a contract
SavedAcceptedHasContract(rq, cs) ==
    \A w \in Workers :
        (\/ /\ rq[w].op = "accept"
            /\ \/ rq[w].pc \in {"accept_get_or_create", "accept_notify"}
               \/ rq[w].pc = "done" /\ rq[w].result = "OK"
         \/ /\ rq[w].op = "update_proposal" /\ rq[w].pc = "done" /\ rq[w].result = "OK"
            /\ rq[w].inst.status = "Accepted")
        => HasContract(cs, rq[w].id)

\* C12: once a save of a Proposal with status Accepted has returned (in
\* accept or in any other save), a Contract for the proposal exists; a
\* contract that a save creates has client = the project's client, freelancer
\* = the proposal's freelancer, payment_amount = the bid_amount of the saved
\* proposal and status Active.
C12_AcceptedSaveEnsuresContract ==
    [][/\ SavedAcceptedHasContract(req', contracts')
       /\ Len(contracts') # Len(contracts)
          => LET c == contracts'[Len(contracts')]
                 p == c.proposal
                 saving == {w \in Workers : req[w].op = "accept" /\ InFlight(w) /\ req'[w] # req[w]}
                 saved == IF saving # {} THEN req[CHOOSE w \in saving : TRUE].inst ELSE proposals'[p]
             IN  /\ Len(contracts') = Len(contracts) + 1
                 /\ SubSeq(contracts', 1, Len(contracts)) = contracts
                 /\ saved.status = "Accepted"
                 /\ proposals'[p].status = "Accepted"
                 /\ c.client = ProjectClient[proposals'[p].project]
                 /\ c.freelancer = proposals'[p].freelancer
                 /\ c.payment_amount = saved.bid_amount
                 /\ c.status = "Active"]_vars

\* accept has answered with the contract its save created, and a later save
\* of the Accepted proposal changed the bid and created nothing
C12_Witness ==
    \E w1, w2 \in Workers :
        /\ Answer(w1, "accept") /\ req[w1].result = "OK"
        /\ Cardinality(ContractsOf(contracts, req[w1].id)) = 1
        /\ contracts[req[w1].contract_id].status \in {"Active", "Completed"}
        /\ Answer(w2, "update_proposal") /\ req[w2].result = "OK" /\ req[w2].id = req[w1].id
        /\ req[w2].inst.status = "Accepted"
        /\ req[w2].inst.bid_amount # contracts[req[w1].contract_id].payment_amount

====
